---- MODULE Spec2Model ----
(***************************************************************************)
(* Model of src/main.cpp: the webcam posture corrector.                    *)
(*                                                                         *)
(* The program is one sequential thread.  The camera and the OpenCV filter *)
(* chain (cvtColor, Canny, HoughLinesP) are the environment: whether the   *)
(* camera opens, whether a read yields an empty frame, and which segment   *)
(* list HoughLinesP returns are nondeterministic choices.  Everything the  *)
(* program itself decides (the angle test, the printed line, the sleep,    *)
(* the exit status) is translated from the code.                           *)
(***************************************************************************)
EXTENDS Integers, Sequences, FiniteSets

VARIABLES
    pc,           \* position of main(): open, read, classify, print, sleep, release, done
    camOK,        \* cap.isOpened() as the environment decides it
    out,          \* lines written to std::cout
    err,          \* lines written to std::cerr
    exitCode,     \* <<>> while running, <<status>> once main has returned
    reads,        \* number of executions of cap >> frame
    frameEmpty,   \* frame.empty() of the last frame read
    lines,        \* std::vector<cv::Vec4i> lines of the current iteration
    goodPosture,  \* bool goodPosture
    accessed,     \* indices of lines the current iteration has subscripted (1-based)
    sleptMs,      \* total milliseconds spent in sleep_for
    released,     \* cap.release() has been called
    memo          \* history: one remembered <<segment list, label>> pair, or <<>>

vars == <<pc, camOK, out, err, exitCode, reads, frameEmpty, lines,
          goodPosture, accessed, sleptMs, released, memo>>

\* ------------------------------------------------------------------ bounds
MaxReads == 3     \* frames with content the camera delivers in one run
MaxLen == 2       \* segments HoughLinesP returns for one frame

\* --------------------------------------------------------- program constants
Threshold == 10   \* degrees
SleepMs == 500
OpenErrMsg == "Error: Could not open webcam."
EmptyErrMsg == "Error: Empty frame."
Banner == "Posture Corrector running. Press 'q' to quit."
GoodMsg == "Good posture!"
BadMsg == "Straighten up!"

\* ------------------------------------------------------- environment inputs
\* Endpoints the line extractor may report.  A segment is a cv::Vec4i
\* <<x1, y1, x2, y2>>; both directions of every pair are possible inputs.
LeftPoints == {<<0, 0>>, <<0, 18>>}
RightPoints == {<<100, 0>>, <<100, 17>>, <<100, 18>>, <<100, 100>>}

Segments ==
    {<<p[1], p[2], q[1], q[2]>> : p \in LeftPoints, q \in RightPoints}
    \cup {<<q[1], q[2], p[1], p[2]>> : p \in LeftPoints, q \in RightPoints}

Lists == UNION {[1..n -> Segments] : n \in 0..MaxLen}

\* ------------------------------------------------------------ the angle test
Abs(x) == IF x < 0 THEN -x ELSE x

\* tan(k degrees) * TanScale, rounded down, for k = 1..89 (tan 45 is exact).
TanScale == 100000
TanTab == <<
    1745, 3492, 5240, 6992, 8748, 10510, 12278, 14054, 15838, 17632,
    19438, 21255, 23086, 24932, 26794, 28674, 30573, 32491, 34432, 36397,
    38386, 40402, 42447, 44522, 46630, 48773, 50952, 53170, 55430, 57735,
    60086, 62486, 64940, 67450, 70020, 72654, 75355, 78128, 80978, 83909,
    86928, 90040, 93251, 96568, 100000, 103553, 107236, 111061, 115036, 119175,
    123489, 127994, 132704, 137638, 142814, 148256, 153986, 160033, 166427, 173205,
    180404, 188072, 196261, 205030, 214450, 224603, 235585, 247508, 260508, 274747,
    290421, 307768, 327085, 348741, 373205, 401078, 433147, 470463, 514455, 567128,
    631375, 711536, 814434, 951436, 1143005, 1430066, 1908113, 2863625, 5728996 >>

\* Whole degrees in atan(n / d), rounded down, for n >= 0 and d > 0.
atanFloor(n, d) == Cardinality({k \in 1..89 : TanTab[k] * d <= n * TanScale})

\* Whole degrees in atan(n / d), rounded up, for n >= 0 and d > 0.
atanCeil(n, d) ==
    (IF n > 0 THEN 1 ELSE 0)
    + Cardinality({k \in 1..89 : TanTab[k] * d < n * TanScale})

\* std::atan2(y, x) * 180 / CV_PI, truncated toward zero to whole degrees.
\* The result is in -180..180; atan2(0, 0) is 0 and atan2(0, x) is 180 for
\* x < 0.  Truncation loses nothing for the test against the whole number
\* Threshold: |a| < 10 exactly when |trunc(a)| < 10.
atan2Deg(y, x) ==
    LET mag == IF x > 0 THEN atanFloor(Abs(y), x)
               ELSE IF x = 0 THEN (IF y = 0 THEN 0 ELSE 90)
               ELSE 180 - atanCeil(Abs(y), -x)
    IN  IF y < 0 THEN -mag ELSE mag

\* float angle = std::atan2(l[3] - l[1], l[2] - l[0]) * 180 / CV_PI
\* (C++ indices 0..3 are 1..4 here).
angle(l) == atan2Deg(l[4] - l[2], l[3] - l[1])

\* Variant: the comparison on line 36 written as <=.
withinTiltInclusive(a) == Abs(a) <= Threshold

\* std::abs(angle) < 10
withinTilt(a) == Abs(a) < Threshold

\* Variant: the flag on line 32 initialised to true.
goodPostureOfDefaultTrue(ls) ==
    IF ls # <<>> THEN withinTilt(angle(ls[1])) ELSE TRUE

\* Variant: line 35 reads the last segment, lines.back(), instead of lines[0].
goodPostureOfLast(ls) ==
    IF ls # <<>> THEN withinTilt(angle(ls[Len(ls)])) ELSE FALSE

\* The value of goodPosture after lines 32-37 for the segment list ls.
goodPostureOf(ls) ==
    IF ls # <<>> THEN withinTilt(angle(ls[1])) ELSE FALSE

\* Indices of ls that lines 33-37 subscript.
accessedOf(ls) == IF ls # <<>> THEN {1} ELSE {}

\* --------------------------------------------------------------------- Init
Init ==
    /\ pc = "open"
    /\ camOK \in BOOLEAN
    /\ out = <<>>
    /\ err = <<>>
    /\ exitCode = <<>>
    /\ reads = 0
    /\ frameEmpty = FALSE
    /\ lines = <<>>
    /\ goodPosture = FALSE
    /\ accessed = {}
    /\ sleptMs = 0
    /\ released = FALSE
    /\ memo = <<>>

\* ------------------------------------------------------------------ actions
\* Variant: line 10 missing, so the failed open falls through to line 13.
OpenFailNoReturn ==
    /\ pc = "open"
    /\ ~camOK
    /\ err' = Append(err, OpenErrMsg)
    /\ out' = Append(out, Banner)
    /\ pc' = "read"
    /\ UNCHANGED <<camOK, exitCode, reads, frameEmpty, lines, goodPosture,
                   accessed, sleptMs, released, memo>>

\* Lines 7-11: the camera did not open.
OpenFail ==
    /\ pc = "open"
    /\ ~camOK
    /\ err' = Append(err, OpenErrMsg)
    /\ exitCode' = <<-1>>
    /\ pc' = "done"
    /\ UNCHANGED <<camOK, out, reads, frameEmpty, lines, goodPosture,
                   accessed, sleptMs, released, memo>>

\* Lines 7-13: the camera opened; print the banner and enter the loop.
OpenOK ==
    /\ pc = "open"
    /\ camOK
    /\ out' = Append(out, Banner)
    /\ pc' = "read"
    /\ UNCHANGED <<camOK, err, exitCode, reads, frameEmpty, lines,
                   goodPosture, accessed, sleptMs, released, memo>>

\* Lines 16-29: a frame with content is read and the filter chain yields a
\* segment list.
ReadFrame ==
    /\ pc = "read"
    /\ reads < MaxReads
    /\ \E ls \in Lists : lines' = ls
    /\ frameEmpty' = FALSE
    /\ reads' = reads + 1
    /\ accessed' = {}
    /\ pc' = "classify"
    /\ UNCHANGED <<camOK, out, err, exitCode, goodPosture, sleptMs,
                   released, memo>>

\* Variant: line 19 writes to std::cout instead of std::cerr.
EmptyFrameToStdout ==
    /\ pc = "read"
    /\ frameEmpty' = TRUE
    /\ reads' = reads + 1
    /\ out' = Append(out, EmptyErrMsg)
    /\ pc' = "release"
    /\ UNCHANGED <<camOK, err, exitCode, lines, goodPosture, accessed,
                   sleptMs, released, memo>>

\* Lines 16-21: the read yields an empty frame; report it and break.
EmptyFrame ==
    /\ pc = "read"
    /\ frameEmpty' = TRUE
    /\ reads' = reads + 1
    /\ err' = Append(err, EmptyErrMsg)
    /\ pc' = "release"
    /\ UNCHANGED <<camOK, out, exitCode, lines, goodPosture, accessed,
                   sleptMs, released, memo>>

\* Variant: goodPosture declared outside the loop, so line 32 does not reset
\* it and a frame without segments keeps the previous frame's flag.
ClassifyCarried ==
    /\ pc = "classify"
    /\ goodPosture' = (IF lines # <<>> THEN withinTilt(angle(lines[1]))
                                       ELSE goodPosture)
    /\ accessed' = accessedOf(lines)
    /\ pc' = "print"
    /\ UNCHANGED <<camOK, out, err, exitCode, reads, frameEmpty, lines,
                   sleptMs, released, memo>>

\* Lines 32-37: the flag is initialised to false and set from the first
\* segment when there is one.
Classify ==
    /\ pc = "classify"
    /\ goodPosture' = goodPostureOf(lines)
    /\ accessed' = accessedOf(lines)
    /\ pc' = "print"
    /\ UNCHANGED <<camOK, out, err, exitCode, reads, frameEmpty, lines,
                   sleptMs, released, memo>>

\* Line 40: the feedback line.
Feedback ==
    /\ pc = "print"
    /\ out' = Append(out, IF goodPosture THEN GoodMsg ELSE BadMsg)
    /\ pc' = "sleep"
    /\ UNCHANGED <<camOK, err, exitCode, reads, frameEmpty, lines,
                   goodPosture, accessed, sleptMs, released, memo>>

\* Variant: line 44 active, so a key press can break out of the loop.
SleepOrQuit ==
    /\ pc = "sleep"
    /\ \/ /\ pc' = "release"
          /\ UNCHANGED <<sleptMs, lines, accessed>>
       \/ /\ sleptMs' = sleptMs + SleepMs
          /\ lines' = <<>>
          /\ accessed' = {}
          /\ pc' = "read"
    /\ UNCHANGED <<camOK, out, err, exitCode, reads, frameEmpty,
                   goodPosture, released, memo>>

\* Variant: line 46 missing, so the loop repeats without sleeping.
SleepSkipped ==
    /\ pc = "sleep"
    /\ lines' = <<>>
    /\ accessed' = {}
    /\ pc' = "read"
    /\ UNCHANGED <<camOK, out, err, exitCode, reads, frameEmpty,
                   goodPosture, sleptMs, released, memo>>

\* Lines 46-47: sleep, then the iteration's locals go out of scope and the
\* loop repeats unconditionally (the waitKey exit on line 44 is a comment).
\* goodPosture keeps its old value here: only line 32 resets it.
Sleep ==
    /\ pc = "sleep"
    /\ sleptMs' = sleptMs + SleepMs
    /\ lines' = <<>>
    /\ accessed' = {}
    /\ pc' = "read"
    /\ UNCHANGED <<camOK, out, err, exitCode, reads, frameEmpty,
                   goodPosture, released, memo>>

\* Variant: line 49 missing, so main returns without releasing the camera.
ReleaseSkipped ==
    /\ pc = "release"
    /\ exitCode' = <<0>>
    /\ pc' = "done"
    /\ UNCHANGED <<camOK, out, err, reads, frameEmpty, lines, goodPosture,
                   accessed, sleptMs, released, memo>>

\* Lines 49-50: after the break.
Release ==
    /\ pc = "release"
    /\ released' = TRUE
    /\ exitCode' = <<0>>
    /\ pc' = "done"
    /\ UNCHANGED <<camOK, out, err, reads, frameEmpty, lines, goodPosture,
                   accessed, sleptMs, memo>>

Next ==
    \/ OpenFail
    \/ OpenOK
    \/ ReadFrame
    \/ EmptyFrame
    \/ Classify
    \/ Feedback
    \/ Sleep
    \/ Release

Spec == Init /\ [][Next]_vars

\* The program is a running thread: whenever one of its own steps (anything
\* but waiting for the camera) is possible, it eventually takes it.
ProgramStep ==
    \/ OpenFail
    \/ OpenOK
    \/ Classify
    \/ Feedback
    \/ Sleep
    \/ Release

LiveSpec == Spec /\ WF_vars(ProgramStep)

\* --------------------------------------------------- history for repeatability
\* Segment lists whose classification may be remembered.
ProbeSegs == {<<0, 0, 100, 17>>, <<0, 0, 100, 18>>}
Probes == UNION {[1..n -> ProbeSegs] : n \in 0..MaxLen}

\* Observer step, not program code: after a feedback line has been printed,
\* remember the list, the line printed for it and the iteration it was in.
Remember ==
    /\ pc = "sleep"
    /\ memo = <<>>
    /\ lines \in Probes
    /\ memo' = <<lines, out[Len(out)], reads>>
    /\ UNCHANGED <<pc, camOK, out, err, exitCode, reads, frameEmpty, lines,
                   goodPosture, accessed, sleptMs, released>>

NextMemo ==
    \/ Next
    \/ Remember

SpecMemo == Init /\ [][NextMemo]_vars

\* ------------------------------------------------------------------- claims

\* C1: for a non-empty segment list the line printed is "Good posture!"
\* exactly when the absolute angle of the FIRST segment, atan2(y2-y1, x2-x1)
\* in degrees, is strictly below 10, and "Straighten up!" otherwise;
\* (0,0)-(100,0) and (0,0)-(100,17) are good, (0,0)-(100,18) and
\* (0,0)-(100,100) are not.
C1_FirstSegmentAngleDecides ==
    (pc = "sleep" /\ lines # <<>>) =>
        LET l == lines[1]
            a == atan2Deg(l[4] - l[2], l[3] - l[1])
            said == out[Len(out)]
        IN  /\ (said = GoodMsg) <=> (a > -10 /\ a < 10)
            /\ (said = BadMsg) <=> (a <= -10 \/ a >= 10)
            /\ l \in {<<0, 0, 100, 0>>, <<0, 0, 100, 17>>} => said = GoodMsg
            /\ l \in {<<0, 0, 100, 18>>, <<0, 0, 100, 100>>} => said = BadMsg

C1_Witness ==
    /\ pc = "sleep"
    /\ Len(lines) = 2
    /\ lines[1] = <<0, 0, 100, 18>>
    /\ lines[2] = <<0, 0, 100, 17>>
    /\ out[Len(out)] = BadMsg

\* C2: a frame whose segment list is empty is classified "needs correction":
\* the flag is false, no element of the list was subscripted, and the line
\* printed is "Straighten up!", never "Good posture!".
C2_EmptyListNeedsCorrection ==
    (pc \in {"print", "sleep"} /\ lines = <<>>) =>
        /\ ~goodPosture
        /\ accessed = {}
        /\ pc = "sleep" => (out[Len(out)] = BadMsg /\ out[Len(out)] # GoodMsg)

C2_Witness ==
    /\ pc = "sleep"
    /\ lines = <<>>
    /\ Len(out) >= 3
    /\ out[Len(out) - 1] = GoodMsg
    /\ out[Len(out)] = BadMsg

\* C3: only the first segment is consulted: the classification of a
\* non-empty list is that of the list holding its first segment alone, and
\* of that segment followed by any other segment; no index but the first is
\* subscripted.
C3_OnlyFirstSegmentConsulted ==
    (pc \in {"print", "sleep"} /\ lines # <<>>) =>
        /\ accessed = {1}
        /\ goodPosture = goodPostureOf(<<lines[1]>>)
        /\ \A s \in Segments : goodPostureOf(<<lines[1], s>>) = goodPosture
        /\ pc = "sleep" =>
               out[Len(out)] = (IF goodPostureOf(<<lines[1]>>) THEN GoodMsg ELSE BadMsg)

C3_Witness ==
    /\ pc = "sleep"
    /\ Len(lines) = 2
    /\ lines[1] = <<0, 0, 100, 0>>
    /\ lines[2] = <<0, 0, 100, 100>>
    /\ out[Len(out)] = GoodMsg

\* C4: when the camera cannot be opened the program writes the error line
\* to the error stream and exits at once with status -1, with no banner, no
\* frame read, no classification line and no sleep.
C4_OpenFailureExitsAtOnce ==
    ~camOK =>
        /\ pc \in {"open", "done"}
        /\ out = <<>>
        /\ reads = 0
        /\ sleptMs = 0
        /\ pc = "open" => (exitCode = <<>> /\ err = <<>>)
        /\ pc = "done" => (exitCode = <<-1>> /\ err = <<OpenErrMsg>>)

C4_Witness ==
    /\ ~camOK
    /\ pc = "done"
    /\ exitCode = <<-1>>
    /\ err = <<OpenErrMsg>>

\* C5: after an empty frame the program has reported the error on the error
\* stream, prints no line for that frame, reads and sleeps no more, releases
\* the camera and exits with status 0; status 0 arises only this way and
\* status -1 only from the failed camera open.
C5_EmptyFrameEndsRun ==
    /\ [](frameEmpty =>
            /\ pc \in {"release", "done"}
            /\ err = <<EmptyErrMsg>>
            /\ Len(out) = reads
            /\ sleptMs = SleepMs * (reads - 1)
            /\ pc = "done" => (released /\ exitCode = <<0>>))
    /\ [](exitCode # <<>> =>
            /\ pc = "done"
            /\ exitCode \in {<<0>>, <<-1>>}
            /\ exitCode = <<0>> => (camOK /\ frameEmpty /\ released)
            /\ exitCode = <<-1>> => (~camOK /\ reads = 0 /\ ~frameEmpty))
    /\ [][frameEmpty => (reads' = reads /\ sleptMs' = sleptMs /\ out' = out)]_vars

C5_Witness ==
    /\ frameEmpty
    /\ pc = "done"
    /\ exitCode = <<0>>
    /\ released
    /\ reads = 3
    /\ Len(out) = 3

\* C6: once the camera is open the loop ends only on an empty frame: no step
\* taken after a frame with content leaves the loop, the exit state is
\* reached only with an empty last frame, and an empty frame leads to
\* termination.
C6_LoopEndsOnlyOnEmptyFrame ==
    /\ [](camOK /\ pc \in {"release", "done"} => frameEmpty)
    /\ [][(pc \in {"classify", "print", "sleep"}) => (pc' \notin {"release", "done"})]_vars
    /\ (frameEmpty ~> pc = "done")

C6_Witness ==
    /\ camOK
    /\ pc = "done"
    /\ frameEmpty
    /\ reads = MaxReads + 1

\* C7: the classification is a function of the current segment list alone:
\* a list that was classified before gets the same line again, whatever was
\* read and printed in between.
C7_SameListSameLabel ==
    (pc = "sleep" /\ memo # <<>> /\ lines = memo[1]) =>
        out[Len(out)] = memo[2]

C7_Witness ==
    /\ pc = "sleep"
    /\ memo # <<>>
    /\ lines = memo[1]
    /\ reads >= memo[3] + 2
    /\ out[Len(out) - 1] # memo[2]
    /\ out[Len(out)] = memo[2]

\* C8: every iteration runs read, classify, print, sleep in that order: the
\* number of classification lines equals the number of frames with content
\* read so far, less the one still being classified, and the time slept is
\* 500 ms for each iteration that has reached the next read.
C8_ReadClassifyPrintSleep ==
    /\ [](camOK /\ pc # "open" =>
            LET content == reads - (IF frameEmpty THEN 1 ELSE 0)
                unprinted == IF pc \in {"classify", "print"} THEN 1 ELSE 0
                unslept == IF pc \in {"classify", "print", "sleep"} THEN 1 ELSE 0
            IN  /\ Len(out) - 1 = content - unprinted
                /\ sleptMs = 500 * (content - unslept))
    /\ [][/\ reads' # reads => pc = "read"
          /\ pc = "classify" => (pc' = "print" /\ out' = out)
          /\ pc = "print" => (pc' = "sleep" /\ Len(out') = Len(out) + 1)
          /\ pc = "sleep" => (pc' = "read" /\ sleptMs' = sleptMs + 500)
          /\ pc \notin {"sleep"} => sleptMs' = sleptMs]_vars

C8_Witness ==
    /\ pc = "read"
    /\ reads = 2
    /\ Len(out) = 3
    /\ sleptMs = 1000

\* C9: on standard output the banner is printed exactly once, after the
\* camera opened and before the first read; every later line is
\* "Good posture!" or "Straighten up!"; error lines never appear there.
C9_StdoutBannerThenLabels ==
    /\ (out # <<>>) <=> (camOK /\ pc # "open")
    /\ reads > 0 => out # <<>>
    /\ out # <<>> => out[1] = Banner
    /\ \A i \in 2..Len(out) : out[i] \in {GoodMsg, BadMsg}
    /\ \A i \in 1..Len(out) : out[i] \notin {OpenErrMsg, EmptyErrMsg}

C9_Witness ==
    /\ pc = "done"
    /\ camOK
    /\ err = <<EmptyErrMsg>>
    /\ Len(out) = 3
    /\ out[2] # out[3]

\* C10: swapping the two endpoints of the first segment never changes the
\* line printed; (100,0)-(0,0) is good like (0,0)-(100,0).
C10_EndpointOrderIrrelevant ==
    (pc = "sleep" /\ lines # <<>>) =>
        LET l == lines[1]
            swapped == <<l[3], l[4], l[1], l[2]>>
        IN  /\ out[Len(out)] = (IF goodPostureOf(<<swapped>>) THEN GoodMsg ELSE BadMsg)
            /\ l = <<100, 0, 0, 0>> => out[Len(out)] = GoodMsg

====
